---- MODULE Spec2Model ----
(***************************************************************************)
(* Model of src/main.rs: an interactive calculator.  main reads a line,    *)
(* Tokens::handle runs Tokens::parse (lexer), Tokens::shunting (infix to   *)
(* postfix) and Tokens::solve (postfix evaluation), and main prints the    *)
(* number or the MathError.                                                *)
(*                                                                         *)
(* A character is a string of length one, a line a sequence of characters. *)
(* An f64 is modelled in sign-magnitude form [neg, n, d]: the magnitude is *)
(* the reduced fraction n/d, d = 0 holds the non-finite values (n = 1      *)
(* infinity, n = 0 NaN), and zero keeps its sign as IEEE 754 does.  The    *)
(* arithmetic is exact: rounding and overflow of f64 are not modelled.     *)
(***************************************************************************)
EXTENDS Integers, Sequences, FiniteSets

VARIABLES
    pc,         \* position of the program
    input,      \* main: the line read by read_line, newline included
    chars,      \* parse: the characters the Peekable<Chars> has not yielded
    tokens,     \* parse: the Vec<MathToken> built so far
    self0,      \* shunting / solve: self.0, the sequence the method owns
    idx,        \* shunting / solve: tokens of self.0 the for loop has taken
    cur,        \* shunting: the operator token the inner loop is handling
    op_stack,   \* shunting: Vec<Op>
    out_queue,  \* shunting: Vec<MathToken>
    stack,      \* solve: Vec<MathToken>
    result,     \* the Result most recently returned in handle's chain
    stdin,      \* the line typed at the latest prompt, newline included
    stdout,     \* what main wrote since it last entered its loop body
    replay,     \* the session is a short one whose output is logged
    log         \* history: the pairs <<line typed, line printed for it>>

vars ==
    <<pc, input, chars, tokens, self0, idx, cur, op_stack, out_queue, stack, result,
      stdin, stdout, replay, log>>

\* the terminal and the history, which only main touches
io == <<stdin, stdout, replay, log>>

----------------------------------------------------------------------------
(* Bounds of the model *)

\* longest typed line over the whole alphabet
MaxLen == 3
\* longest typed line over the token alphabet (one character per token)
MaxToks == 4
\* most operators in a parenthesis-free chain n0 op1 n1 ... opk nk
MaxChain == 2

----------------------------------------------------------------------------
(* Characters *)

Digits == {"0", "1", "2", "3", "4", "5", "6", "7", "8", "9"}

DigitVal(c) ==
    CASE c = "0" -> 0 [] c = "1" -> 1 [] c = "2" -> 2 [] c = "3" -> 3
      [] c = "4" -> 4 [] c = "5" -> 5 [] c = "6" -> 6 [] c = "7" -> 7
      [] c = "8" -> 8 [] c = "9" -> 9

\* '0'..='9' | '.'
IsNumChar(c) == c \in Digits \cup {"."}

\* '+'|'-'|'*'|'/'|'('|')'
IsOpChar(c) == c \in {"+", "-", "*", "/", "(", ")"}

\* char::is_whitespace, on the characters of the model
IsWhitespace(c) == c \in {" ", "\n"}

----------------------------------------------------------------------------
(* f64 *)

RECURSIVE Gcd(_, _)
Gcd(a, b) == IF b = 0 THEN a ELSE Gcd(b, a % b)

NaN == [neg |-> FALSE, n |-> 0, d |-> 0]
Inf(neg) == [neg |-> neg, n |-> 1, d |-> 0]
IsNaN(x) == x.n = 0 /\ x.d = 0
IsInf(x) == x.n = 1 /\ x.d = 0
IsFinite(x) == x.d > 0
IsZero(x) == x.n = 0 /\ x.d > 0

\* the finite value (-1)^neg * n/d, reduced
Frac(neg, n, d) ==
    LET g == Gcd(n, d) IN [neg |-> neg, n |-> n \div g, d |-> d \div g]

Negate(x) == IF IsNaN(x) THEN NaN ELSE [x EXCEPT !.neg = ~x.neg]

FAdd(x, y) ==
    IF IsNaN(x) \/ IsNaN(y) THEN NaN
    ELSE IF IsInf(x) THEN (IF IsInf(y) /\ x.neg # y.neg THEN NaN ELSE x)
    ELSE IF IsInf(y) THEN y
    ELSE LET sx == IF x.neg THEN 0 - x.n ELSE x.n
             sy == IF y.neg THEN 0 - y.n ELSE y.n
             num == sx * y.d + sy * x.d
         IN  IF num = 0 THEN [neg |-> x.neg /\ y.neg, n |-> 0, d |-> 1]
             ELSE IF num < 0 THEN Frac(TRUE, 0 - num, x.d * y.d)
             ELSE Frac(FALSE, num, x.d * y.d)

FSub(x, y) == FAdd(x, Negate(y))

FMul(x, y) ==
    IF IsNaN(x) \/ IsNaN(y) THEN NaN
    ELSE IF (IsInf(x) /\ IsZero(y)) \/ (IsZero(x) /\ IsInf(y)) THEN NaN
    ELSE IF IsInf(x) \/ IsInf(y) THEN Inf(x.neg # y.neg)
    ELSE Frac(x.neg # y.neg, x.n * y.n, x.d * y.d)

FDiv(x, y) ==
    IF IsNaN(x) \/ IsNaN(y) THEN NaN
    ELSE IF (IsInf(x) /\ IsInf(y)) \/ (IsZero(x) /\ IsZero(y)) THEN NaN
    ELSE IF IsInf(x) \/ IsZero(y) THEN Inf(x.neg # y.neg)
    ELSE IF IsInf(y) THEN [neg |-> x.neg # y.neg, n |-> 0, d |-> 1]
    ELSE Frac(x.neg # y.neg, x.n * y.d, x.d * y.n)

----------------------------------------------------------------------------
(* enum Op *)

Ops == {"Add", "Sub", "Mul", "Div", "ParOpen", "ParClose"}

from_char(ch) ==
    CASE ch = "+" -> "Add" [] ch = "-" -> "Sub" [] ch = "*" -> "Mul"
      [] ch = "/" -> "Div" [] ch = "(" -> "ParOpen" [] ch = ")" -> "ParClose"

precedence(op) ==
    CASE op \in {"ParOpen", "ParClose"} -> 0
      [] op \in {"Add", "Sub"} -> 1
      [] op \in {"Mul", "Div"} -> 2

\* call with a division that checks its divisor, as an integer division does:
\* a zero divisor panics
call_checked(op, x, y) ==
    CASE op = "Add" -> [panic |-> FALSE, v |-> FAdd(x, y)]
      [] op = "Sub" -> [panic |-> FALSE, v |-> FSub(x, y)]
      [] op = "Mul" -> [panic |-> FALSE, v |-> FMul(x, y)]
      [] op = "Div" -> [panic |-> IsZero(y), v |-> FDiv(x, y)]
      [] OTHER -> [panic |-> TRUE, v |-> NaN]

\* Op::call: [panic, v]; the unreachable!() arm panics
call(op, x, y) ==
    CASE op = "Add" -> [panic |-> FALSE, v |-> FAdd(x, y)]
      [] op = "Sub" -> [panic |-> FALSE, v |-> FSub(x, y)]
      [] op = "Mul" -> [panic |-> FALSE, v |-> FMul(x, y)]
      [] op = "Div" -> [panic |-> FALSE, v |-> FDiv(x, y)]
      [] OTHER -> [panic |-> TRUE, v |-> NaN]

----------------------------------------------------------------------------
(* enum MathToken, struct Tokens, enum MathError *)

\* every token is a record of one shape; op is "-" in a Num, v is NaN in an Oper
Num(v) == [t |-> "Num", op |-> "-", v |-> v]
Oper(op) == [t |-> "Oper", op |-> op, v |-> NaN]

NoTokens == <<>>

\* a Result of one shape: kind is "Ok" or the MathError variant ("none": no
\* value returned yet, "panic": the thread panicked); val the f64 of Ok(f64);
\* str the String (its characters), the char or the &'static str an error
\* carries, as a sequence; toks the Tokens of Ok(Tokens), BadTokens or
\* MissingParens
Res(kind, val, str, toks) == [kind |-> kind, val |-> val, str |-> str, toks |-> toks]
NoResult == Res("none", NaN, <<>>, NoTokens)
OkNum(v) == Res("Ok", v, <<>>, NoTokens)
OkTokens(toks) == Res("Ok", NaN, <<>>, toks)
ParseNumError(buf) == Res("ParseNumError", NaN, buf, NoTokens)
UnsupportedCharError(ch) == Res("UnsupportedCharError", NaN, <<ch>>, NoTokens)
BadTokens(msg, toks) == Res("BadTokens", NaN, <<msg>>, toks)
MissingParens(toks) == Res("MissingParens", NaN, <<>>, toks)
Panicked == Res("panic", NaN, <<>>, NoTokens)

NotEnough == "Not enough tokens to pop from stack."
OperInStack == "unreachable? operators were put on the queue."
OperLeft == "unreachable? operators were put on the queue while emptying operator stack."
TooMany == "Too many tokens left on stack."

----------------------------------------------------------------------------
(* Sequences *)

Last(s) == s[Len(s)]
Front(s) == SubSeq(s, 1, Len(s) - 1)

RECURSIVE Pow10(_)
Pow10(k) == IF k = 0 THEN 1 ELSE 10 * Pow10(k - 1)

\* str::trim: leading and trailing whitespace removed
RECURSIVE TrimStart(_)
TrimStart(s) == IF s # <<>> /\ IsWhitespace(Head(s)) THEN TrimStart(Tail(s)) ELSE s
RECURSIVE TrimEnd(_)
TrimEnd(s) == IF s # <<>> /\ IsWhitespace(Last(s)) THEN TrimEnd(Front(s)) ELSE s
Trim(s) == TrimEnd(TrimStart(s))

----------------------------------------------------------------------------
(* Tokens::parse_num and Tokens::parse *)

\* str::parse::<f64> on a text of digits and '.': [ok, v].  The text is a float
\* when it has at least one digit and at most one '.'
RECURSIVE DigitsValue(_, _)
DigitsValue(buf, acc) ==
    IF buf = <<>> THEN acc
    ELSE IF Head(buf) = "." THEN DigitsValue(Tail(buf), acc)
    ELSE DigitsValue(Tail(buf), 10 * acc + DigitVal(Head(buf)))

ParseF64(buf) ==
    LET dots == {i \in 1..Len(buf) : buf[i] = "."}
        ndigits == Len(buf) - Cardinality(dots)
        scale == IF dots = {} THEN 0 ELSE Len(buf) - (CHOOSE i \in dots : TRUE)
    IN  IF Cardinality(dots) <= 1 /\ ndigits >= 1
        THEN [ok |-> TRUE, v |-> Frac(FALSE, DigitsValue(buf, 0), Pow10(scale))]
        ELSE [ok |-> FALSE, v |-> NaN]

\* TakeNumChars that stops after one character
TakeNumChars_one(input_, buf) ==
    [buf |-> Append(buf, Head(input_)), chars |-> Tail(input_)]

\* the while loop of parse_num: [buf, chars]
RECURSIVE TakeNumChars(_, _)
TakeNumChars(input_, buf) ==
    IF input_ # <<>> /\ IsNumChar(Head(input_))
    THEN TakeNumChars(Tail(input_), Append(buf, Head(input_)))
    ELSE [buf |-> buf, chars |-> input_]

\* parse_num: [chars, ret], ret is Ok(f64) or Err(ParseNumError(buf))
parse_num(input_) ==
    LET r == TakeNumChars(input_, <<>>)
        f == ParseF64(r.buf)
    IN  [chars |-> r.chars,
         ret |-> IF f.ok THEN OkNum(f.v) ELSE ParseNumError(r.buf)]

\* the guard of the third arm of parse's match: `if chr.is_whitespace()` guards
\* the whole or-pattern `Some(chr @ '=') | Some(chr)`, so '=' never passes it
SkipArm(c) == (c = "=" \/ TRUE) /\ IsWhitespace(c)

\* one iteration of the loop of parse: [chars, tokens, ret]; ret is NoResult
\* while the loop goes on
ParseIter(chars_, tokens_) ==
    IF chars_ = <<>> THEN
        [chars |-> chars_, tokens |-> tokens_, ret |-> OkTokens(tokens_)]
    ELSE LET c == Head(chars_) IN
        IF IsNumChar(c) THEN
            LET r == parse_num(chars_) IN
            IF r.ret.kind = "Ok"
            THEN [chars |-> r.chars, tokens |-> Append(tokens_, Num(r.ret.val)),
                  ret |-> NoResult]
            ELSE [chars |-> r.chars, tokens |-> tokens_, ret |-> r.ret]
        ELSE IF IsOpChar(c) THEN
            [chars |-> Tail(chars_), tokens |-> Append(tokens_, Oper(from_char(c))),
             ret |-> NoResult]
        ELSE IF SkipArm(c) THEN
            [chars |-> Tail(chars_), tokens |-> tokens_, ret |-> NoResult]
        ELSE
            [chars |-> Tail(chars_), tokens |-> tokens_, ret |-> UnsupportedCharError(c)]

\* Tokens::parse as a function of its input
RECURSIVE ParseRun(_, _)
ParseRun(chars_, tokens_) ==
    LET r == ParseIter(chars_, tokens_) IN
    IF r.ret.kind = "none" THEN ParseRun(r.chars, r.tokens) ELSE r.ret

parse(input_) == ParseRun(input_, <<>>)

----------------------------------------------------------------------------
(* Tokens::shunting *)

\* the body of `for token in &self.0` up to the inner loops: [pc, idx, cur,
\* op_stack, out_queue]
ShuntingFor(self_, idx_, op_stack_, out_queue_) ==
    IF idx_ = Len(self_) THEN
        [pc |-> "flush", idx |-> idx_, cur |-> "-", op_stack |-> op_stack_,
         out_queue |-> out_queue_]
    ELSE LET token == self_[idx_ + 1] IN
        IF token.t = "Num" THEN
            [pc |-> "for", idx |-> idx_ + 1, cur |-> "-", op_stack |-> op_stack_,
             out_queue |-> Append(out_queue_, token)]
        ELSE IF token.op = "ParOpen" THEN
            [pc |-> "for", idx |-> idx_ + 1, cur |-> "-",
             op_stack |-> Append(op_stack_, token.op), out_queue |-> out_queue_]
        ELSE IF token.op = "ParClose" THEN
            [pc |-> "par_close", idx |-> idx_ + 1, cur |-> token.op,
             op_stack |-> op_stack_, out_queue |-> out_queue_]
        ELSE
            [pc |-> "oper", idx |-> idx_ + 1, cur |-> token.op,
             op_stack |-> op_stack_, out_queue |-> out_queue_]

\* ParCloseIter whose error carries the output built so far
ParCloseIter_partial(self_, op_stack_, out_queue_) ==
    IF Len(op_stack_) = 0 THEN
        [pc |-> "return", op_stack |-> op_stack_, out_queue |-> out_queue_,
         ret |-> MissingParens(out_queue_)]
    ELSE IF Last(op_stack_) = "ParOpen" THEN
        [pc |-> "for", op_stack |-> Front(op_stack_), out_queue |-> out_queue_,
         ret |-> NoResult]
    ELSE
        [pc |-> "par_close", op_stack |-> Front(op_stack_),
         out_queue |-> Append(out_queue_, Oper(Last(op_stack_))), ret |-> NoResult]

\* one iteration of the loop of the ParClose arm: [pc, op_stack, out_queue, ret]
ParCloseIter(self_, op_stack_, out_queue_) ==
    IF Len(op_stack_) = 0 THEN
        [pc |-> "return", op_stack |-> op_stack_, out_queue |-> out_queue_,
         ret |-> MissingParens(self_)]
    ELSE IF Last(op_stack_) = "ParOpen" THEN
        [pc |-> "for", op_stack |-> Front(op_stack_), out_queue |-> out_queue_,
         ret |-> NoResult]
    ELSE
        [pc |-> "par_close", op_stack |-> Front(op_stack_),
         out_queue |-> Append(out_queue_, Oper(Last(op_stack_))), ret |-> NoResult]

\* PopsBefore with the comparison turned round
PopsBefore_reversed(oper, prev) == precedence(oper) > precedence(prev)

\* the test of the while loop of the operator arm: pop the top of the stack?
PopsBefore(oper, prev) == precedence(oper) < precedence(prev)

\* OperIter that forgets the operator it pops
OperIter_drop(oper, op_stack_, out_queue_) ==
    IF op_stack_ # <<>> /\ PopsBefore(oper, Last(op_stack_)) THEN
        [pc |-> "oper", op_stack |-> Front(op_stack_), out_queue |-> out_queue_]
    ELSE
        [pc |-> "for", op_stack |-> Append(op_stack_, oper), out_queue |-> out_queue_]

\* one iteration of the while loop of the operator arm, or the push that
\* follows it: [pc, op_stack, out_queue]
OperIter(oper, op_stack_, out_queue_) ==
    IF op_stack_ # <<>> /\ PopsBefore(oper, Last(op_stack_)) THEN
        [pc |-> "oper", op_stack |-> Front(op_stack_),
         out_queue |-> Append(out_queue_, Oper(Last(op_stack_)))]
    ELSE
        [pc |-> "for", op_stack |-> Append(op_stack_, oper), out_queue |-> out_queue_]

\* FlushIter without the final while loop: the operators left are dropped
FlushIter_noflush(op_stack_, out_queue_) ==
    [pc |-> "return", op_stack |-> op_stack_, out_queue |-> out_queue_,
     ret |-> OkTokens(out_queue_)]

\* one iteration of the final while loop, or the return: [pc, op_stack,
\* out_queue, ret]
FlushIter(op_stack_, out_queue_) ==
    IF op_stack_ # <<>> THEN
        [pc |-> "flush", op_stack |-> Front(op_stack_),
         out_queue |-> Append(out_queue_, Oper(Last(op_stack_))), ret |-> NoResult]
    ELSE
        [pc |-> "return", op_stack |-> op_stack_, out_queue |-> out_queue_,
         ret |-> OkTokens(out_queue_)]

\* Tokens::shunting as a function of self.0
RECURSIVE ShuntingRun(_, _, _, _, _, _)
ShuntingRun(self_, at, idx_, cur_, op_stack_, out_queue_) ==
    CASE at = "for" ->
            LET r == ShuntingFor(self_, idx_, op_stack_, out_queue_)
            IN  ShuntingRun(self_, r.pc, r.idx, r.cur, r.op_stack, r.out_queue)
      [] at = "par_close" ->
            LET r == ParCloseIter(self_, op_stack_, out_queue_)
            IN  IF r.pc = "return" THEN r.ret
                ELSE ShuntingRun(self_, r.pc, idx_, cur_, r.op_stack, r.out_queue)
      [] at = "oper" ->
            LET r == OperIter(cur_, op_stack_, out_queue_)
            IN  ShuntingRun(self_, r.pc, idx_, cur_, r.op_stack, r.out_queue)
      [] at = "flush" ->
            LET r == FlushIter(op_stack_, out_queue_)
            IN  IF r.pc = "return" THEN r.ret
                ELSE ShuntingRun(self_, r.pc, idx_, cur_, r.op_stack, r.out_queue)

shunting(self_) == ShuntingRun(self_, "for", 0, "-", <<>>, <<>>)

----------------------------------------------------------------------------
(* Tokens::solve *)

\* SolveFor whose underflow error carries the value stack, not self
SolveFor_carrystack(self_, token, stack_) ==
    IF token.t = "Num" THEN [stack |-> Append(stack_, token), ret |-> NoResult]
    ELSE IF Len(stack_) < 2 THEN
        [stack |-> stack_, ret |-> BadTokens(NotEnough, stack_)]
    ELSE LET y == Last(stack_)
             x == Last(Front(stack_))
             rest == Front(Front(stack_))
         IN  IF y.t = "Num" /\ x.t = "Num" THEN
                 LET c == call(token.op, x.v, y.v) IN
                 IF c.panic THEN [stack |-> rest, ret |-> Panicked]
                 ELSE [stack |-> Append(rest, Num(c.v)), ret |-> NoResult]
             ELSE [stack |-> rest, ret |-> BadTokens(OperInStack, self_)]

\* SolveFor that takes the top of the stack as the left operand
SolveFor_swapped(self_, token, stack_) ==
    IF token.t = "Num" THEN [stack |-> Append(stack_, token), ret |-> NoResult]
    ELSE IF Len(stack_) < 2 THEN
        [stack |-> stack_, ret |-> BadTokens(NotEnough, self_)]
    ELSE LET x == Last(stack_)
             y == Last(Front(stack_))
             rest == Front(Front(stack_))
         IN  IF y.t = "Num" /\ x.t = "Num" THEN
                 LET c == call(token.op, x.v, y.v) IN
                 IF c.panic THEN [stack |-> rest, ret |-> Panicked]
                 ELSE [stack |-> Append(rest, Num(c.v)), ret |-> NoResult]
             ELSE [stack |-> rest, ret |-> BadTokens(OperInStack, self_)]

\* SolveFor that keeps an operator it cannot apply on the stack
SolveFor_pushop(self_, token, stack_) ==
    IF token.t = "Num" \/ Len(stack_) < 2 THEN
        [stack |-> Append(stack_, token), ret |-> NoResult]
    ELSE LET y == Last(stack_)
             x == Last(Front(stack_))
             rest == Front(Front(stack_))
         IN  IF y.t = "Num" /\ x.t = "Num" THEN
                 LET c == call(token.op, x.v, y.v) IN
                 IF c.panic THEN [stack |-> rest, ret |-> Panicked]
                 ELSE [stack |-> Append(rest, Num(c.v)), ret |-> NoResult]
             ELSE [stack |-> rest, ret |-> BadTokens(OperInStack, self_)]

\* the body of `for token in &self.0`: [stack, ret]; ret is NoResult while the
\* loop goes on
SolveFor(self_, token, stack_) ==
    IF token.t = "Num" THEN [stack |-> Append(stack_, token), ret |-> NoResult]
    ELSE IF Len(stack_) < 2 THEN
        [stack |-> stack_, ret |-> BadTokens(NotEnough, self_)]
    ELSE LET y == Last(stack_)
             x == Last(Front(stack_))
             rest == Front(Front(stack_))
         IN  IF y.t = "Num" /\ x.t = "Num" THEN
                 LET c == call(token.op, x.v, y.v) IN
                 IF c.panic THEN [stack |-> rest, ret |-> Panicked]
                 ELSE [stack |-> Append(rest, Num(c.v)), ret |-> NoResult]
             ELSE [stack |-> rest, ret |-> BadTokens(OperInStack, self_)]

\* SolveEnd that answers with the top of any non-empty stack
SolveEnd_nonempty(self_, stack_) ==
    IF Len(stack_) >= 1 THEN
        IF Last(stack_).t = "Num" THEN OkNum(Last(stack_).v)
        ELSE BadTokens(OperLeft, self_)
    ELSE BadTokens(TooMany, self_)

\* what solve returns once the for loop is over
SolveEnd(self_, stack_) ==
    IF Len(stack_) = 1 THEN
        IF Last(stack_).t = "Num" THEN OkNum(Last(stack_).v)
        ELSE BadTokens(OperLeft, self_)
    ELSE BadTokens(TooMany, self_)

\* Tokens::solve as a function of self.0
RECURSIVE SolveRun(_, _, _)
SolveRun(self_, idx_, stack_) ==
    IF idx_ = Len(self_) THEN SolveEnd(self_, stack_)
    ELSE LET r == SolveFor(self_, self_[idx_ + 1], stack_) IN
         IF r.ret.kind = "none" THEN SolveRun(self_, idx_ + 1, r.stack) ELSE r.ret

solve(self_) == SolveRun(self_, 0, <<>>)

----------------------------------------------------------------------------
(* Tokens::handle *)

\* a chain without `?`: the next stage runs whatever the stage returned
Question_never(r, next) == next

\* the `?` operator: where handle goes on after a stage returned r
Question(r, next) == IF r.kind = "Ok" THEN next ELSE "print"

\* Tokens::handle as a function of its input
handle(input_) ==
    LET p == parse(Trim(input_)) IN
    IF Question(p, "shunting") = "print" THEN p
    ELSE LET q == shunting(p.toks) IN
         IF Question(q, "solve") = "print" THEN q
         ELSE solve(q.toks)

----------------------------------------------------------------------------
(* fmt::Display and the lines main prints *)

\* A text written to stdout is a sequence of pieces.  A piece is a literal
\* string, or an f64 under the format it is written with ("{}" or "{:.3}"):
\* the digits are not computed, the format that produces them is kept.
Str(s_) == [fmt |-> "str", s |-> s_, v |-> NaN]
Float(fmt_, v_) == [fmt |-> fmt_, s |-> "", v |-> v_]

\* the character ` (a string of this module cannot hold it)
Backtick == Str("BACKTICK")

\* a String, character by character
Chars(buf) == [i \in 1..Len(buf) |-> Str(buf[i])]

\* impl fmt::Display for Op
DisplayOp(op) ==
    CASE op = "Add" -> "+" [] op = "Sub" -> "-" [] op = "Mul" -> "*"
      [] op = "Div" -> "/" [] op = "ParOpen" -> "(" [] op = "ParClose" -> ")"

\* impl fmt::Display for Tokens: the first token, `{{{}` for a number and `{}`
\* for an operator
DisplayFirst(tok) ==
    IF tok.t = "Num" THEN <<Str("{"), Float("{}", tok.v)>>
    ELSE <<Str(DisplayOp(tok.op))>>

\* impl fmt::Display for Tokens: a later token, `, {}`
DisplayNext(tok) ==
    IF tok.t = "Num" THEN <<Str(", "), Float("{}", tok.v)>>
    ELSE <<Str(", "), Str(DisplayOp(tok.op))>>

RECURSIVE DisplayRest(_)
DisplayRest(toks) ==
    IF toks = <<>> THEN <<>> ELSE DisplayNext(Head(toks)) \o DisplayRest(Tail(toks))

\* impl fmt::Display for Tokens
DisplayTokens(toks) ==
    (IF toks = <<>> THEN <<>> ELSE DisplayFirst(Head(toks)) \o DisplayRest(Tail(toks)))
        \o <<Str("}")>>

\* impl fmt::Display for MathError
DisplayMathError(e) ==
    CASE e.kind = "ParseNumError" ->
            <<Str("ParseNumError: "), Backtick>> \o Chars(e.str) \o <<Backtick>>
      [] e.kind = "UnsupportedCharError" ->
            <<Str("UnsupportedCharError: "), Backtick>> \o Chars(e.str) \o <<Backtick>>
      [] e.kind = "BadTokens" ->
            <<Str("BadTokens: ")>> \o DisplayTokens(e.toks)
                \o <<Str(" ("), Str(e.str[1]), Str(")")>>
      [] e.kind = "MissingParens" ->
            <<Str("MissingParens: ")>> \o DisplayTokens(e.toks)

\* main: the println! of the match on result
PrintedLine(r) ==
    (IF r.kind = "Ok" THEN <<Float("{:.3}", r.val)>> ELSE DisplayMathError(r))
        \o <<Str("\n")>>

PromptText == <<Str(">> ")>>
GoodbyeLine == <<Str("Goodbye."), Str("\n")>>

\* LoopInput for a String declared before the loop: read_line appends to what
\* the previous iterations read
LoopInput_outside(previous) == previous

\* main: `let mut input = String::new()` in the loop body: read_line appends to
\* a new String whatever the previous iteration read
LoopInput(previous) == <<>>

----------------------------------------------------------------------------
(* The lines typed at the prompt *)

Alphabet == {"0", "1", "2", ".", "+", "-", "*", "/", "(", ")", " ", "=", "@"}
TokAlphabet == {"1", "2", "+", "-", "*", "/", "(", ")"}
ChainDigits == {"1", "2", "3"}
ArithChars == {"+", "-", "*", "/"}

SeqsUpTo(S, n) == UNION {[1..k -> S] : k \in 0..n}

\* n0 op1 n1 ... opk nk
RECURSIVE ChainsOf(_)
ChainsOf(k) ==
    IF k = 0 THEN {<<d>> : d \in ChainDigits}
    ELSE {c \o <<o, d>> : c \in ChainsOf(k - 1), o \in ArithChars, d \in ChainDigits}

Chains == UNION {ChainsOf(k) : k \in 1..MaxChain}

\* a op1 ( b op2 c )
ParenForms ==
    {<<a, o1, "(", b, o2, c, ")">> :
        a \in ChainDigits, o1 \in ArithChars, b \in ChainDigits, o2 \in ArithChars,
        c \in ChainDigits}

ExitLine == <<"e", "x", "i", "t">>

\* longer lines, among them the exit command and a line that trims to it
Examples ==
    { <<"1", "0", "/", "2", "-", "3">>,
      <<" ", "1", " ", "+", " ", "2", " ", "=", " ">>,
      <<"1", " ", "+", " ", "+", " ", "2">>,
      <<"1", " ", "2", " ", "+">>,
      <<"1", " ", "@", " ", "2">>,
      <<"1", ".", "2", ".", "3">>,
      <<"(", "1", "+", "2", ")", "*", "(", "3">>,
      <<"7", "/", "0">>,
      <<" ", "e", "x", "i", "t", " ">>,
      ExitLine }

Lines ==
    SeqsUpTo(Alphabet, MaxLen) \cup SeqsUpTo(TokAlphabet, MaxToks) \cup Chains
        \cup ParenForms \cup Examples

\* the lines of a short session
ReplayLines ==
    { <<"1">>, <<"2", "-", "1">>, <<"1", " ", "2">>, <<"=">>, <<")">>,
      <<"7", "/", "0">>, <<"1", "+", "(", "2">>, ExitLine }

----------------------------------------------------------------------------
(* The program *)

Start ==
    /\ pc = "prompt"
    /\ input = <<>>
    /\ chars = <<>>
    /\ tokens = <<>>
    /\ self0 = <<>>
    /\ idx = 0
    /\ cur = "-"
    /\ op_stack = <<>>
    /\ out_queue = <<>>
    /\ stack = <<>>
    /\ result = NoResult
    /\ stdin = <<>>
    /\ stdout = <<>>
    /\ log = {}

Init == Start /\ replay = FALSE

\* a short session, whose output is logged
InitReplay == Start /\ replay = TRUE

\* main: the top of the loop body: the prompt is written and flushed, input is
\* a new String, the result of the previous iteration is gone
Prompt ==
    /\ pc = "prompt"
    /\ pc' = "read"
    /\ stdout' = <<PromptText>>
    /\ input' = LoopInput(input)
    /\ result' = NoResult
    /\ stdin' = <<>>
    /\ UNCHANGED <<chars, tokens, self0, idx, cur, op_stack, out_queue, stack>>
    /\ UNCHANGED <<replay, log>>

\* main: read_line appends the line typed to input
ReadLine ==
    /\ pc = "read"
    /\ \E line \in (IF replay THEN ReplayLines ELSE Lines) :
        /\ stdin' = line \o <<"\n">>
        /\ input' = input \o line \o <<"\n">>
    /\ pc' = "main"
    /\ UNCHANGED <<chars, tokens, self0, idx, cur, op_stack, out_queue, stack, result>>
    /\ UNCHANGED <<stdout, replay, log>>

\* main: the line is the exit command
Exit ==
    /\ pc = "main"
    /\ Trim(input) = ExitLine
    /\ pc' = "exited"
    /\ stdout' = Append(stdout, GoodbyeLine)
    /\ UNCHANGED <<input, chars, tokens, self0, idx, cur, op_stack, out_queue, stack, result>>
    /\ UNCHANGED <<stdin, replay, log>>

\* main calls Tokens::handle, which trims the line and calls Tokens::parse
Handle ==
    /\ pc = "main"
    /\ Trim(input) # ExitLine
    /\ pc' = "parse"
    /\ chars' = Trim(input)
    /\ UNCHANGED <<input, tokens, self0, idx, cur, op_stack, out_queue, stack, result>>
    /\ UNCHANGED io

\* parse: one iteration of the loop
Parse ==
    /\ pc = "parse"
    /\ LET r == ParseIter(chars, tokens) IN
        IF r.ret.kind = "none" THEN
            /\ chars' = r.chars
            /\ tokens' = r.tokens
            /\ UNCHANGED <<pc, self0, result>>
        ELSE
            /\ result' = r.ret
            /\ pc' = Question(r.ret, "for")
            /\ self0' = r.ret.toks
            /\ chars' = <<>>
            /\ tokens' = <<>>
    /\ UNCHANGED <<input, idx, cur, op_stack, out_queue, stack>>
    /\ UNCHANGED io

\* shunting: the for loop takes the next token
ShuntingToken ==
    /\ pc = "for"
    /\ LET r == ShuntingFor(self0, idx, op_stack, out_queue) IN
        /\ pc' = r.pc
        /\ idx' = r.idx
        /\ cur' = r.cur
        /\ op_stack' = r.op_stack
        /\ out_queue' = r.out_queue
    /\ UNCHANGED <<input, chars, tokens, self0, stack, result>>
    /\ UNCHANGED io

\* shunting returns ret to handle
ShuntingReturn(ret) ==
    /\ result' = ret
    /\ pc' = Question(ret, "solve")
    /\ self0' = ret.toks
    /\ idx' = 0
    /\ cur' = "-"
    /\ op_stack' = <<>>
    /\ out_queue' = <<>>

\* shunting: one iteration of the loop of the ParClose arm
ShuntingParClose ==
    /\ pc = "par_close"
    /\ LET r == ParCloseIter(self0, op_stack, out_queue) IN
        IF r.pc = "return" THEN ShuntingReturn(r.ret)
        ELSE
            /\ pc' = r.pc
            /\ op_stack' = r.op_stack
            /\ out_queue' = r.out_queue
            /\ cur' = IF r.pc = "for" THEN "-" ELSE cur
            /\ UNCHANGED <<self0, idx, result>>
    /\ UNCHANGED <<input, chars, tokens, stack>>
    /\ UNCHANGED io

\* shunting: one iteration of the while loop of the operator arm
ShuntingOper ==
    /\ pc = "oper"
    /\ LET r == OperIter(cur, op_stack, out_queue) IN
        /\ pc' = r.pc
        /\ op_stack' = r.op_stack
        /\ out_queue' = r.out_queue
        /\ cur' = IF r.pc = "for" THEN "-" ELSE cur
    /\ UNCHANGED <<input, chars, tokens, self0, idx, stack, result>>
    /\ UNCHANGED io

\* shunting: one iteration of the final while loop
ShuntingFlush ==
    /\ pc = "flush"
    /\ LET r == FlushIter(op_stack, out_queue) IN
        IF r.pc = "return" THEN ShuntingReturn(r.ret)
        ELSE
            /\ pc' = r.pc
            /\ op_stack' = r.op_stack
            /\ out_queue' = r.out_queue
            /\ UNCHANGED <<self0, idx, cur, result>>
    /\ UNCHANGED <<input, chars, tokens, stack>>
    /\ UNCHANGED io

\* solve: the for loop takes the next token
SolveToken ==
    /\ pc = "solve"
    /\ idx < Len(self0)
    /\ LET r == SolveFor(self0, self0[idx + 1], stack) IN
        IF r.ret.kind = "none" THEN
            /\ stack' = r.stack
            /\ idx' = idx + 1
            /\ UNCHANGED <<pc, self0, result>>
        ELSE
            /\ result' = r.ret
            /\ pc' = IF r.ret.kind = "panic" THEN "panicked" ELSE "print"
            /\ self0' = <<>>
            /\ idx' = 0
            /\ stack' = <<>>
    /\ UNCHANGED <<input, chars, tokens, cur, op_stack, out_queue>>
    /\ UNCHANGED io

\* solve: the for loop is over
SolveReturn ==
    /\ pc = "solve"
    /\ idx = Len(self0)
    /\ result' = SolveEnd(self0, stack)
    /\ pc' = "print"
    /\ self0' = <<>>
    /\ idx' = 0
    /\ stack' = <<>>
    /\ UNCHANGED <<input, chars, tokens, cur, op_stack, out_queue>>
    /\ UNCHANGED io

\* main prints the result; the loop body is over
PrintResult ==
    /\ pc = "print"
    /\ pc' = "prompt"
    /\ stdout' = Append(stdout, PrintedLine(result))
    /\ log' = IF replay THEN log \cup {<<stdin, PrintedLine(result)>>} ELSE log
    /\ self0' = <<>>
    /\ result' = NoResult
    /\ UNCHANGED <<input, chars, tokens, idx, cur, op_stack, out_queue, stack>>
    /\ UNCHANGED <<stdin, replay>>

Next ==
    \/ Prompt
    \/ ReadLine
    \/ Exit
    \/ Handle
    \/ Parse
    \/ ShuntingToken
    \/ ShuntingParClose
    \/ ShuntingOper
    \/ ShuntingFlush
    \/ SolveToken
    \/ SolveReturn
    \/ PrintResult

Spec == Init /\ [][Next]_vars

SpecReplay == InitReplay /\ [][Next]_vars

----------------------------------------------------------------------------
(* Vocabulary of the properties *)

\* the line as typed (read_line's newline dropped) and the text handle lexes
Typed == IF input = <<>> THEN <<>> ELSE Front(input)
Text == Trim(input)

\* the positions inside shunting, and those parse has returned before
ShuntingPcs == {"for", "par_close", "oper", "flush"}
ParseReturned == pc \in ShuntingPcs \cup {"solve", "print", "panicked"}

\* handle has returned to main, or the thread panicked inside it
Returned == pc \in {"print", "panicked"}

LexErrors == {"ParseNumError", "UnsupportedCharError"}
ArithOps == {"Add", "Sub", "Mul", "Div"}

IsNum(tok) == tok.t = "Num"
IsArith(tok) == tok.t = "Oper" /\ tok.op \in ArithOps
IsOp(tok, op) == tok.t = "Oper" /\ tok.op = op

CountOf(toks, P(_)) == Cardinality({i \in 1..Len(toks) : P(toks[i])})
ParenFree(toks) == \A i \in 1..Len(toks) : IsNum(toks[i]) \/ IsArith(toks[i])

\* well-formed infix: E ::= T (op T)*,  T ::= number | ( E ).  Scanned with the
\* kind of token expected next and the number of parentheses open
RECURSIVE InfixScan(_, _, _, _)
InfixScan(toks, i, operand, depth) ==
    IF i > Len(toks) THEN ~operand /\ depth = 0
    ELSE LET tok == toks[i] IN
        IF operand THEN
            IF IsNum(tok) THEN InfixScan(toks, i + 1, FALSE, depth)
            ELSE IF IsOp(tok, "ParOpen") THEN InfixScan(toks, i + 1, TRUE, depth + 1)
            ELSE FALSE
        ELSE
            IF IsArith(tok) THEN InfixScan(toks, i + 1, TRUE, depth)
            ELSE IF IsOp(tok, "ParClose") /\ depth > 0
                THEN InfixScan(toks, i + 1, FALSE, depth - 1)
            ELSE FALSE

WellFormed(toks) == InfixScan(toks, 1, TRUE, 0)

\* valid postfix: no parenthesis, two pending operands at every operator, one
\* value at the end
RECURSIVE PostfixScan(_, _, _)
PostfixScan(toks, i, pending) ==
    IF i > Len(toks) THEN pending = 1
    ELSE IF IsNum(toks[i]) THEN PostfixScan(toks, i + 1, pending + 1)
    ELSE IsArith(toks[i]) /\ pending >= 2 /\ PostfixScan(toks, i + 1, pending - 1)

ValidPostfix(toks) == PostfixScan(toks, 1, 0)

\* parentheses left open once every ')' has closed the nearest open '('
RECURSIVE OpenLeft(_, _, _)
OpenLeft(toks, i, depth) ==
    IF i > Len(toks) THEN depth
    ELSE IF IsOp(toks[i], "ParOpen") THEN OpenLeft(toks, i + 1, depth + 1)
    ELSE IF IsOp(toks[i], "ParClose") /\ depth > 0 THEN OpenLeft(toks, i + 1, depth - 1)
    ELSE OpenLeft(toks, i + 1, depth)

\* the value x op y of two numbers
Apply(op, x, y) == call(op, x, y).v

----------------------------------------------------------------------------
(* C1 *)

\* s with character c inserted after its first i characters
InsertAt(s, i, c) == SubSeq(s, 1, i) \o <<c>> \o SubSeq(s, i + 1, Len(s))

\* position i of s lies inside a numeric literal
InsideLiteral(s, i) == i >= 1 /\ i < Len(s) /\ IsNumChar(s[i]) /\ IsNumChar(s[i + 1])

\* C1: whitespace and '=' are ignorable.  For the line read, inserting one
\* blank or one '=' anywhere outside a numeric literal (a trailing '=' too)
\* leaves the outcome of Tokens::handle the same number or the same error.
C1_IgnorableChars ==
    pc = "main" =>
        \A i \in 0..Len(Typed) : \A c \in {" ", "="} :
            ~InsideLiteral(Typed, i) =>
                handle(InsertAt(Typed, i, c) \o <<"\n">>) = handle(input)

----------------------------------------------------------------------------
(* C2 *)

\* C2: an input whose token sequence has an opening parenthesis that is never
\* closed makes Tokens::handle return MissingParens: no panic, no number.
C2_UnclosedParenRejected ==
    LET p == parse(Text) IN
    (Returned /\ p.kind = "Ok" /\ OpenLeft(p.toks, 1, 0) > 0) =>
        result.kind = "MissingParens"

----------------------------------------------------------------------------
(* C3 *)

\* n0 op1 n1 ... opk nk, k >= 1, every operator of one precedence
IsChain(toks) ==
    /\ Len(toks) >= 3
    /\ Len(toks) % 2 = 1
    /\ \A i \in 1..Len(toks) : IF i % 2 = 1 THEN IsNum(toks[i]) ELSE IsArith(toks[i])
    /\ \A i, j \in 1..Len(toks) :
        (i % 2 = 0 /\ j % 2 = 0) => precedence(toks[i].op) = precedence(toks[j].op)

\* (((n0 op1 n1) op2 n2) ... opk nk), from the operator at position i on
RECURSIVE LeftFold(_, _, _)
LeftFold(toks, i, acc) ==
    IF i > Len(toks) THEN acc
    ELSE LeftFold(toks, i + 2, Apply(toks[i].op, acc, toks[i + 1].v))

\* the operators of toks, in order
RECURSIVE OperatorsOf(_)
OperatorsOf(toks) ==
    IF toks = <<>> THEN <<>>
    ELSE IF IsNum(Head(toks)) THEN OperatorsOf(Tail(toks))
    ELSE <<Head(toks)>> \o OperatorsOf(Tail(toks))

\* C3: operators of equal precedence left-associate.  For a parenthesis-free
\* chain of operators of one precedence, shunting emits the operators in the
\* order met and the value is (((n0 op1 n1) op2 n2) ... opk nk).
C3_LeftAssociative ==
    LET p == parse(Text) IN
    (p.kind = "Ok" /\ IsChain(p.toks)) =>
        /\ (pc = "solve" /\ idx = 0) => OperatorsOf(self0) = OperatorsOf(p.toks)
        /\ Returned => result = OkNum(LeftFold(p.toks, 2, p.toks[1].v))

----------------------------------------------------------------------------
(* C4 *)

\* a op1 b op2 c
IsFlat3(toks) ==
    /\ Len(toks) = 5
    /\ IsNum(toks[1]) /\ IsArith(toks[2]) /\ IsNum(toks[3]) /\ IsArith(toks[4])
    /\ IsNum(toks[5])

\* a op1 ( b op2 c )
IsParenForm(toks) ==
    /\ Len(toks) = 7
    /\ IsNum(toks[1]) /\ IsArith(toks[2]) /\ IsOp(toks[3], "ParOpen") /\ IsNum(toks[4])
    /\ IsArith(toks[5]) /\ IsNum(toks[6]) /\ IsOp(toks[7], "ParClose")

\* C4: precedence is respected and parentheses override it.  a op1 b op2 c is
\* (a op1 b) op2 c when op1 is * or / and op2 is + or -, and a op1 (b op2 c)
\* the other way round; a op1 ( b op2 c ) is a op1 (b op2 c) for every pair of
\* operators, the ')' moving to the output the operator pushed since its '('
\* and no other.
C4_PrecedenceAndParens ==
    (Returned \/ (pc = "for" /\ idx = 7)) =>
    LET p == parse(Text)
        t == p.toks
    IN  /\ (p.kind = "Ok" /\ IsFlat3(t) /\ Returned) =>
            /\ (precedence(t[2].op) = 2 /\ precedence(t[4].op) = 1) =>
                result = OkNum(Apply(t[4].op, Apply(t[2].op, t[1].v, t[3].v), t[5].v))
            /\ (precedence(t[2].op) = 1 /\ precedence(t[4].op) = 2) =>
                result = OkNum(Apply(t[2].op, t[1].v, Apply(t[4].op, t[3].v, t[5].v)))
        /\ (p.kind = "Ok" /\ IsParenForm(t)) =>
            /\ Returned =>
                result = OkNum(Apply(t[2].op, t[1].v, Apply(t[5].op, t[4].v, t[6].v)))
            /\ (pc = "for" /\ idx = 7) =>
                /\ op_stack = <<t[2].op>>
                /\ out_queue = <<t[1], t[4], t[6], t[5]>>

\* a * ( b + c ) has been evaluated, to a value that is not (a * b) + c
C4_Witness ==
    LET t == parse(Text).toks IN
    /\ pc = "print"
    /\ IsParenForm(t)
    /\ t[2].op = "Mul" /\ t[5].op = "Add"
    /\ result.kind = "Ok"
    /\ result.val # Apply("Add", Apply("Mul", t[1].v, t[4].v), t[6].v)

----------------------------------------------------------------------------
(* C5 *)

\* shunting has just returned self0 to handle, which passed it to solve
Converted == pc = "solve" /\ idx = 0

\* C5 as stated: the sequence shunting produces is a valid postfix expression
\* if and only if the infix sequence is well-formed, and solve returns a number
\* exactly for well-formed infix input.
C5_ValidIffWellFormed ==
    LET p == parse(Text) IN
    p.kind = "Ok" =>
        /\ Converted => (ValidPostfix(self0) <=> WellFormed(p.toks))
        /\ Returned => (result.kind = "Ok" <=> WellFormed(p.toks))

\* C5 as amended: a well-formed infix sequence is converted to a valid postfix
\* expression and solve returns a number for it.  (Not the converse: `( ) 1`
\* and `1 2 +` are ill-formed, convert to valid postfix and give a number.)
C5_WellFormedGivesValid ==
    pc \in {"solve", "print", "exited", "panicked"} =>
    LET p == parse(Text) IN
    (p.kind = "Ok" /\ WellFormed(p.toks)) =>
        /\ pc \notin {"exited", "panicked"}
        /\ pc \in {"solve", "print"} => result.kind = "Ok"
        /\ Converted => ValidPostfix(self0)

\* a well-formed line with parentheses and two operators has been evaluated
C5_Witness ==
    LET p == parse(Text) IN
    /\ pc = "print"
    /\ p.kind = "Ok"
    /\ WellFormed(p.toks)
    /\ CountOf(p.toks, IsArith) >= 2
    /\ \E i \in 1..Len(p.toks) : IsOp(p.toks[i], "ParOpen")
    /\ result.kind = "Ok"

----------------------------------------------------------------------------
(* C6 *)

\* C6: the sequence shunting returns holds only numbers and the four
\* arithmetic operators, so solve never reaches the unreachable!() arm of
\* Op::call.
C6_NoParenReachesSolve ==
    /\ pc = "solve" => ParenFree(self0)
    /\ pc # "panicked"

----------------------------------------------------------------------------
(* C7 *)

\* the loop of the ParClose arm run to its end from a state of it
RECURSIVE ParCloseLoop(_, _, _)
ParCloseLoop(self_, op_stack_, out_queue_) ==
    LET r == ParCloseIter(self_, op_stack_, out_queue_) IN
    IF r.pc = "par_close" THEN ParCloseLoop(self_, r.op_stack, r.out_queue) ELSE r

\* the operators of stack_ above position k, topmost first, as tokens
PoppedAbove(stack_, k) ==
    [j \in 1..(Len(stack_) - k) |-> Oper(stack_[Len(stack_) + 1 - j])]

\* C7: on a ')' shunting moves the operators above the topmost '(' from the
\* stack to the output, topmost first, and removes that '(' without emitting
\* it; with no '(' on the stack it fails with MissingParens, and the error
\* carries the whole infix sequence that parse produced, not the output.
C7_ParCloseEffect ==
    /\ pc = "par_close" =>
        LET opens == {k \in 1..Len(op_stack) : op_stack[k] = "ParOpen"}
            r == ParCloseLoop(self0, op_stack, out_queue)
        IN  IF opens = {} THEN
                /\ r.pc = "return"
                /\ r.ret = MissingParens(parse(Text).toks)
            ELSE LET k == CHOOSE m \in opens : \A n \in opens : n <= m IN
                /\ r.pc = "for"
                /\ r.ret = NoResult
                /\ r.op_stack = SubSeq(op_stack, 1, k - 1)
                /\ r.out_queue = out_queue \o PoppedAbove(op_stack, k)
    /\ result.kind = "MissingParens" =>
        /\ pc = "print"
        /\ result.toks = parse(Text).toks
        /\ \E i \in 1..Len(result.toks) : IsOp(result.toks[i], "ParClose")

\* a ')' is being handled with an operator above the '(' it closes
C7_Witness ==
    /\ pc = "par_close"
    /\ Len(op_stack) >= 2
    /\ Last(op_stack) \in ArithOps
    /\ \E k \in 1..Len(op_stack) : op_stack[k] = "ParOpen"

----------------------------------------------------------------------------
(* C8 *)

\* operands and operators of a parenthesis-free sequence do not balance
Unbalanced(toks) == CountOf(toks, IsNum) # CountOf(toks, IsArith) + 1

\* C8 as stated: when the operand and operator counts do not balance (`1 2`,
\* `1 + + 2`) the pipeline fails with BadTokens "Too many tokens left on
\* stack.", carrying the postfix sequence.
C8_UnbalancedIsTooMany ==
    LET p == parse(Text) IN
    (Returned /\ p.kind = "Ok" /\ ParenFree(p.toks) /\ Unbalanced(p.toks)) =>
        result = BadTokens(TooMany, shunting(p.toks).toks)

\* C8 as amended, for parenthesis-free input: literals with no operator that
\* are not exactly one (`1 2`, the empty line) fail with BadTokens "Too many
\* tokens left on stack."; at least one operator and no more operands than
\* operators (`1 + + 2`) fail with BadTokens "Not enough tokens to pop from
\* stack." instead; both carry the postfix sequence.  Whatever the input, "Too
\* many tokens left on stack." is returned only when the counts do not balance.
C8_TooManyOrNotEnough ==
    LET p == parse(Text)
        nums == CountOf(p.toks, IsNum)
        ops == CountOf(p.toks, IsArith)
    IN  (pc = "print" /\ p.kind = "Ok") =>
            /\ (ParenFree(p.toks) /\ ops = 0 /\ nums # 1) =>
                result = BadTokens(TooMany, shunting(p.toks).toks)
            /\ (ParenFree(p.toks) /\ ops >= 1 /\ ops >= nums) =>
                result = BadTokens(NotEnough, shunting(p.toks).toks)
            /\ result.str = <<TooMany>> =>
                /\ result.kind = "BadTokens"
                /\ nums # ops + 1
                /\ result.toks = shunting(p.toks).toks

\* `1 2`: two literals and no operator have been rejected
C8_Witness ==
    LET p == parse(Text) IN
    /\ pc = "print"
    /\ p.kind = "Ok"
    /\ Len(p.toks) = 2 /\ IsNum(p.toks[1]) /\ IsNum(p.toks[2])
    /\ result = BadTokens(TooMany, p.toks)

----------------------------------------------------------------------------
(* C9 *)

\* the longest run of digits and '.' that s starts with
RECURSIVE NumRun(_)
NumRun(s) ==
    IF s # <<>> /\ IsNumChar(Head(s)) THEN <<Head(s)>> \o NumRun(Tail(s)) ELSE <<>>

\* the run is a float: digits with at most one '.', not a '.' alone
IsFloatText(run) ==
    /\ Cardinality({i \in 1..Len(run) : run[i] = "."}) <= 1
    /\ \E i \in 1..Len(run) : run[i] \in Digits

\* the leftmost offence of a text, blanks and '=' being no offence: the error
\* for it, or NoResult when the text has none
RECURSIVE FirstOffence(_)
FirstOffence(s) ==
    IF s = <<>> THEN NoResult
    ELSE IF IsNumChar(Head(s)) THEN
        LET run == NumRun(s) IN
        IF IsFloatText(run) THEN FirstOffence(SubSeq(s, Len(run) + 1, Len(s)))
        ELSE ParseNumError(run)
    ELSE IF IsOpChar(Head(s)) \/ IsWhitespace(Head(s)) \/ Head(s) = "=" THEN
        FirstOffence(Tail(s))
    ELSE UnsupportedCharError(Head(s))

\* C9: parse reports the leftmost offending item and returns no tokens: the
\* first character outside digits, '.', the six operator characters,
\* whitespace and '=', or the whole first run of digits and '.' that is not a
\* float.
C9_LeftmostOffence ==
    (ParseReturned /\ FirstOffence(Text).kind # "none") =>
        result = FirstOffence(Text)

----------------------------------------------------------------------------
(* C10 *)

\* no variable of shunting or solve holds anything
StagesUntouched ==
    /\ self0 = <<>> /\ idx = 0 /\ cur = "-"
    /\ op_stack = <<>> /\ out_queue = <<>> /\ stack = <<>>

\* C10: the pipeline stops at the first stage that fails.  A lexer error is
\* what handle returns, with shunting and solve never entered, also when the
\* line has an unmatched ')' as well; a MissingParens of shunting is what
\* handle returns, with solve never entered.
C10_ShortCircuit ==
    /\ result.kind \in LexErrors => (pc = "print" /\ StagesUntouched)
    /\ result.kind = "MissingParens" => (pc = "print" /\ stack = <<>> /\ idx = 0)
    /\ (pc = "print" /\ \E i \in 1..Len(Text) : Text[i] = "@") =>
        result.kind \in LexErrors
    /\ pc \in ShuntingPcs \cup {"solve"} => (result.kind = "Ok" /\ result.toks = self0)

\* `1)@`: the lexer error is returned for a line whose ')' is unmatched
C10_Witness ==
    /\ pc = "print"
    /\ Text = <<"1", ")", "@">>
    /\ result = UnsupportedCharError("@")

----------------------------------------------------------------------------
(* C11 *)

\* main has printed its answer to the line typed and is back at the top of
\* its loop
Answered == pc = "prompt" /\ stdin # <<>>

\* C11: no input line is fatal to the process.  A line that is not the exit
\* command never makes the thread panic, and makes main print exactly one line
\* after the prompt before it prompts again.
C11_NoLineFatal ==
    /\ pc # "panicked"
    /\ Answered => (Len(stdout) = 2 /\ stdout[1] = PromptText)

----------------------------------------------------------------------------
(* C12 *)

\* C12: evaluation is idempotent and history-independent.  In a session, a
\* line typed twice is answered with the same printed line whatever was
\* evaluated before or in between, and the line printed is the one
\* Tokens::handle gives for the line typed alone.
C12_SameLineSameOutput ==
    /\ \A p, q \in log : p[1] = q[1] => p[2] = q[2]
    /\ Answered => stdout = <<PromptText, PrintedLine(handle(stdin))>>

\* a line that was answered earlier in the session has been evaluated again,
\* after two other lines at least
C12_Witness ==
    /\ pc = "print"
    /\ Cardinality(log) >= 3
    /\ <<stdin, PrintedLine(result)>> \in log

----------------------------------------------------------------------------
(* C13 *)

\* a token as the rendering is said to show it
BracedItem(tok) ==
    IF IsNum(tok) THEN Float("{:.3}", tok.v) ELSE Str(DisplayOp(tok.op))

RECURSIVE BracedItems(_)
BracedItems(toks) ==
    IF toks = <<>> THEN <<>>
    ELSE IF Len(toks) = 1 THEN <<BracedItem(Head(toks))>>
    ELSE <<BracedItem(Head(toks)), Str(", ")>> \o BracedItems(Tail(toks))

\* '{', the tokens separated by ", ", '}'
Braced(toks) == <<Str("{")>> \o BracedItems(toks) \o <<Str("}")>>

\* C13: the token sequence of an error message is rendered in braces, the
\* tokens once each in order and separated by ", ", operators as their symbol
\* and numbers to three decimal places, whatever the sequence (the empty one
\* and one that starts with an operator included).
C13_BracedRendering ==
    Answered =>
        LET r == handle(stdin) IN
        /\ r.kind = "BadTokens" =>
            stdout[2] = <<Str("BadTokens: ")>> \o Braced(r.toks)
                            \o <<Str(" ("), Str(r.str[1]), Str(")"), Str("\n")>>
        /\ r.kind = "MissingParens" =>
            stdout[2] = <<Str("MissingParens: ")>> \o Braced(r.toks) \o <<Str("\n")>>

-----------------------------------------------------------------------------
(* C14 *)

\* solve is about to apply the operator op to the two values on top of the stack
AboutToApply(op) ==
    /\ pc = "solve"
    /\ idx < Len(self0)
    /\ IsOp(self0[idx + 1], op)
    /\ Len(stack) >= 2

\* IEEE 754 x / 0 for a zero of either sign: NaN for 0/0 and NaN/0, else the
\* infinity whose sign is the product of the signs
OverZero(x, zero) ==
    IF IsNaN(x) \/ IsZero(x) THEN NaN ELSE Inf(x.neg # zero.neg)

\* the infix sequence `a / b` with b zero
IsOverZero(toks) ==
    /\ Len(toks) = 3
    /\ IsNum(toks[1]) /\ IsOp(toks[2], "Div") /\ IsNum(toks[3])
    /\ IsZero(toks[3].v)

\* C14: division by zero is not an error.  When solve divides by a value that
\* is zero the step fails with no MathError and does not panic: it pushes the
\* infinity or the NaN of floating-point division and goes on; and a line
\* `a / 0` makes handle return Ok with that infinity or NaN.
C14_DivisionByZero ==
    /\ (AboutToApply("Div") /\ IsZero(Last(stack).v)) =>
        LET r == SolveFor(self0, self0[idx + 1], stack)
            x == stack[Len(stack) - 1].v
        IN  /\ r.ret = NoResult
            /\ r.stack = Append(Front(Front(stack)), Num(OverZero(x, Last(stack).v)))
    /\ (Returned /\ parse(Text).kind = "Ok" /\ IsOverZero(parse(Text).toks)) =>
        LET toks == parse(Text).toks IN
        /\ result = OkNum(OverZero(toks[1].v, toks[3].v))
        /\ ~IsFinite(result.val)

\* "7/0" has printed its answer, the positive infinity
C14_Witness ==
    /\ pc = "print"
    /\ Text = <<"7", "/", "0">>
    /\ result = OkNum(Inf(FALSE))

-----------------------------------------------------------------------------
(* C15 *)

IsUnderflow(r) == r.kind = "BadTokens" /\ r.str = <<NotEnough>>

\* the position of the first operator token of toks that is reached with fewer
\* than two values pending, 0 when there is none.  A parenthesis token reached
\* with two values or more panics, so that no later token is reached.
RECURSIVE FirstUnderflow(_, _, _)
FirstUnderflow(toks, i, pending) ==
    IF i > Len(toks) THEN 0
    ELSE IF IsNum(toks[i]) THEN FirstUnderflow(toks, i + 1, pending + 1)
    ELSE IF pending < 2 THEN i
    ELSE IF IsArith(toks[i]) THEN FirstUnderflow(toks, i + 1, pending - 1)
    ELSE 0

\* C15: solve fails with "Not enough tokens to pop from stack." exactly when it
\* reaches an operator token with fewer than two values on the stack.  It fails
\* at the first such operator, no later token being processed, and the error
\* carries the whole postfix sequence solve was given.
C15_StackUnderflow ==
    /\ (pc = "solve" /\ idx < Len(self0)) =>
        LET tok == self0[idx + 1]
            r == SolveFor(self0, tok, stack)
        IN  /\ IsUnderflow(r.ret) <=> (tok.t = "Oper" /\ Len(stack) < 2)
            /\ IsUnderflow(r.ret) =>
                /\ r.ret.toks = self0
                /\ FirstUnderflow(self0, 1, 0) = idx + 1
            /\ FirstUnderflow(self0, 1, 0) \in {0} \cup (idx + 1)..Len(self0)
    /\ (pc = "solve" /\ idx = Len(self0)) => FirstUnderflow(self0, 1, 0) = 0
    /\ (Returned /\ parse(Text).kind = "Ok") =>
        LET post == shunting(parse(Text).toks) IN
        IsUnderflow(result) <=>
            (post.kind = "Ok" /\ FirstUnderflow(post.toks, 1, 0) # 0)
    /\ (Returned /\ IsUnderflow(result)) =>
        result.toks = shunting(parse(Text).toks).toks

\* "1 + + 2" has failed at its first '+' in postfix order, `1 2 + +` being the
\* sequence carried
C15_Witness ==
    /\ pc = "print"
    /\ IsUnderflow(result)
    /\ Len(result.toks) = 4
    /\ FirstUnderflow(result.toks, 1, 0) = 4

-----------------------------------------------------------------------------
(* C16 *)

\* left op right in f64 arithmetic
Arith(op, left, right) ==
    CASE op = "Add" -> FAdd(left, right)
      [] op = "Sub" -> FSub(left, right)
      [] op = "Mul" -> FMul(left, right)
      [] op = "Div" -> FDiv(left, right)

\* the postfix sequence [a, b, op] of two numbers and an arithmetic operator
IsBinary(toks) ==
    Len(toks) = 3 /\ IsNum(toks[1]) /\ IsNum(toks[2]) /\ IsArith(toks[3])

\* C16: operand order in solve.  At an arithmetic operator with two values or
\* more on the stack, the top is the right operand and the value under it the
\* left one; the two are replaced by left op right, so the stack is one shorter.
\* Hence the postfix sequence [a, b, op] evaluates to a op b, not b op a.
C16_OperandOrder ==
    /\ \A op \in ArithOps : AboutToApply(op) =>
        LET r == SolveFor(self0, self0[idx + 1], stack)
            n == Len(stack)
        IN  /\ r.ret = NoResult
            /\ Len(r.stack) = n - 1
            /\ SubSeq(r.stack, 1, n - 2) = SubSeq(stack, 1, n - 2)
            /\ r.stack[n - 1] = Num(Arith(op, stack[n - 1].v, stack[n].v))
    /\ (Returned /\ parse(Text).kind = "Ok") =>
        LET post == shunting(parse(Text).toks) IN
        (post.kind = "Ok" /\ IsBinary(post.toks)) =>
            result = OkNum(Arith(post.toks[3].op, post.toks[1].v, post.toks[2].v))

\* "2-1" has printed 1, and not -1
C16_Witness ==
    /\ pc = "print"
    /\ Text = <<"2", "-", "1">>
    /\ result = OkNum(Frac(FALSE, 1, 1))

-----------------------------------------------------------------------------
(* C17 *)

\* the positions inside Tokens::handle
HandlePcs == {"parse"} \cup ShuntingPcs \cup {"solve"}

\* tokens shunting has yet to place for good: those not read, those on the
\* operator stack, those in the output, and the operator in hand
InFlight ==
    (Len(self0) - idx) + Len(op_stack) + Len(out_queue)
        + (IF pc = "oper" THEN 1 ELSE 0)

\* steps shunting has yet to take, at most
ShuntingSteps ==
    3 * (Len(self0) - idx) + Len(op_stack)
        + (CASE pc = "for" -> 1 [] pc \in {"par_close", "oper"} -> 3 [] OTHER -> 0)

\* a bound on the steps handle has yet to take; 0 once it is over
Variant ==
    CASE pc = "parse" -> 6 * Len(chars) + 5 * Len(tokens) + 6
      [] pc \in ShuntingPcs -> ShuntingSteps + InFlight + 2
      [] pc = "solve" -> (Len(self0) - idx) + 1
      [] OTHER -> 0

\* a step inside handle uses up the bound, which is linear in the length of
\* the line; each iteration of the loop of parse consumes a character, each
\* iteration of an inner loop of shunting shrinks the operator stack, and solve
\* moves to the next token
StepDecreases ==
    /\ Variant' < Variant
    /\ Variant <= 6 * Len(Text) + 6
    /\ (pc = "parse" /\ pc' = "parse") => Len(chars') < Len(chars)
    /\ (pc \in {"par_close", "oper"} /\ pc' = pc) => Len(op_stack') < Len(op_stack)
    /\ (pc = "solve" /\ pc' = "solve") => idx' = idx + 1

\* the part of C17 about the loops alone: every step inside handle decreases
\* the bound
C17_LoopsDecrease == [][(pc \in HandlePcs) => StepDecreases]_vars

\* C17: every stage terminates in a number of steps bounded by the length of
\* the input, so that handle always returns Ok or Err: every step inside handle
\* decreases a bound linear in the length of the line, and none leaves handle
\* otherwise than by a return.
C17_Terminates ==
    [][(pc \in HandlePcs) => (StepDecreases /\ pc' # "panicked")]_vars

-----------------------------------------------------------------------------
(* C18 *)

\* parse has just returned Ok(tokens) and shunting is about to start
Parsed == pc = "for" /\ idx = 0 /\ op_stack = <<>> /\ out_queue = <<>>

\* position i of s starts a maximal run of digit/'.' characters
StartsRun(s, i) == IsNumChar(s[i]) /\ (i = 1 \/ ~IsNumChar(s[i - 1]))

\* the positions of s that give a token: the start of each maximal run, and
\* each operator character
TokenStarts(s) == {i \in 1..Len(s) : StartsRun(s, i) \/ IsOpChar(s[i])}

\* the k-th smallest element of the set S of numbers
RECURSIVE Kth(_, _)
Kth(S, k) ==
    LET m == CHOOSE x \in S : \A y \in S : x <= y
    IN  IF k = 1 THEN m ELSE Kth(S \ {m}, k - 1)

\* the token that starts at position i of s
TokenAt(s, i) ==
    IF IsOpChar(s[i]) THEN Oper(from_char(s[i]))
    ELSE Num(ParseF64(NumRun(SubSeq(s, i, Len(s)))).v)

\* C18: when parse succeeds its tokens are, in the order of the text, one
\* Number token for each maximal run of digit/'.' characters and one Operator
\* token for each of + - * / ( ), and nothing else: as many tokens as runs and
\* operator characters together, none for whitespace.
C18_MaximalMunch ==
    Parsed =>
        LET starts == TokenStarts(Text) IN
        /\ Len(self0) = Cardinality({i \in 1..Len(Text) : StartsRun(Text, i)})
                            + Cardinality({i \in 1..Len(Text) : IsOpChar(Text[i])})
        /\ Len(self0) = Cardinality(starts)
        /\ \A k \in 1..Len(self0) : self0[k] = TokenAt(Text, Kth(starts, k))

\* "10/2-3" has been parsed to its five tokens
C18_Witness ==
    /\ Parsed
    /\ Text = <<"1", "0", "/", "2", "-", "3">>
    /\ Len(self0) = 5
    /\ self0[1] = Num(Frac(FALSE, 10, 1))

-----------------------------------------------------------------------------
(* C19 *)

\* the Number tokens of toks, in order
RECURSIVE NumsOf(_)
NumsOf(toks) ==
    IF toks = <<>> THEN <<>>
    ELSE IF IsNum(Head(toks)) THEN <<Head(toks)>> \o NumsOf(Tail(toks))
    ELSE NumsOf(Tail(toks))

\* how many tokens of toks are the operator op
OpCount(toks, op) == Cardinality({i \in 1..Len(toks) : IsOp(toks[i], op)})

\* C19: shunting only reorders operators.  When it returns Ok the output has
\* the Number tokens of the input in the same order and each arithmetic
\* operator as many times as the input; every ')' and the '(' it matched are
\* dropped and nothing is invented, so the output is shorter than the input by
\* twice the number of matched pairs.
C19_OnlyReorders ==
    Converted =>
        LET in == parse(Text).toks
            pairs == OpCount(in, "ParClose")
        IN  /\ NumsOf(self0) = NumsOf(in)
            /\ \A op \in ArithOps : OpCount(self0, op) = OpCount(in, op)
            /\ OpCount(self0, "ParClose") = 0
            /\ OpCount(self0, "ParOpen") = OpCount(in, "ParOpen") - pairs
            /\ OpCount(self0, "ParOpen") = OpenLeft(in, 1, 0)
            /\ Len(self0) = Len(in) - 2 * pairs

\* "(1+2)*(3" has been converted: eight tokens in, one matched pair dropped
C19_Witness ==
    /\ Converted
    /\ Len(parse(Text).toks) = 8
    /\ OpCount(parse(Text).toks, "ParClose") = 1
    /\ Len(self0) = 6

-----------------------------------------------------------------------------
(* C20 *)

\* C20: the value stack of solve holds Num tokens only, at every step; so solve
\* never returns either of the errors "Operator found in stack." and
\* "Operator left in stack.", and when it pops two values for an operator the
\* stack holds two at least.
C20_StackOnlyNums ==
    /\ \A i \in 1..Len(stack) : IsNum(stack[i])
    /\ result.str \notin {<<OperInStack>>, <<OperLeft>>}
    /\ (pc = "solve" /\ idx < Len(self0)) =>
        LET tok == self0[idx + 1]
            r == SolveFor(self0, tok, stack)
        IN  /\ r.ret.str \notin {<<OperInStack>>, <<OperLeft>>}
            /\ \A i \in 1..Len(r.stack) : IsNum(r.stack[i])
            /\ (tok.t = "Oper" /\ Len(r.stack) # Len(stack)) => Len(stack) >= 2
    /\ (pc = "solve" /\ idx = Len(self0)) =>
        SolveEnd(self0, stack).str \notin {<<OperInStack>>, <<OperLeft>>}

\* solve has applied an operator to two values popped from the stack, and
\* returned the one value left
C20_Witness ==
    /\ pc = "print"
    /\ result.kind = "Ok"
    /\ Len(shunting(parse(Text).toks).toks) >= 5

====
